---- MODULE Spec2Model ----
(***************************************************************************)
(* Model of scripts/generate_data.py: the synthetic bank-event generator.  *)
(*                                                                         *)
(* State: the command-line arguments, the position of the driver loop and  *)
(* of write_partition, the file system (directories and part files), the   *)
(* set of open file handles and the record being written.                  *)
(*                                                                         *)
(* Conventions                                                             *)
(*   - money is kept in integer cents: round(x, 2) yields a multiple of    *)
(*     0.01, so 5.0 is 500 and 0.0 (and -0.0) is 0;                        *)
(*   - a day string "YYYY-MM-DD" is the triple <<Y, M, D>>; strptime turns *)
(*     it into a proleptic Gregorian ordinal, timedelta subtracts days     *)
(*     from the ordinal, strftime turns the ordinal back into a triple;    *)
(*   - a path out/day=<d>/source=<s>/part-<i>.json is the record           *)
(*     [day |-> d, source |-> s, part |-> i];                              *)
(*   - a file's content is its number of lines and the run that wrote it;  *)
(*   - a record keeps the keys that decide event_type and amount; keys     *)
(*     that are independent random draws (event_id, user_id, timestamp,    *)
(*     merchant fields, the status of a payment, ...) are left out;        *)
(*   - math.ceil(n_events / events_per_file) goes through a double; for    *)
(*     operands below 2^53 its value is the exact integer ceiling, which   *)
(*     is what CeilDiv computes.                                           *)
(***************************************************************************)
EXTENDS Integers, Sequences, FiniteSets, TLC

(* ------------------------------ bounds --------------------------------- *)
MaxDays == 2
MaxTotal == 6
MaxPerFile == 2
MaxPre == 2

(* ----------------------------- constants ------------------------------- *)
SOURCES == <<"payments", "billing", "crm", "erp", "support">>

PAYMENT_CHANNELS ==
    {"ach_credit", "ach_debit", "wire_transfer", "card_auth", "card_settlement", "zelle"}

CRM_EVENTS ==
    {"kyc_verified", "kyc_pending", "kyc_refresh_due", "address_update",
     "phone_update", "account_locked", "login"}

\* the --day values tried: the day after a leap day (going back crosses the
\* end of February) and the first of January (going back crosses the end of
\* the year)
EndDays == {<<2024, 3, 1>>, <<2024, 1, 1>>}

\* the --total-events values tried: 0..MaxTotal has every remainder of the
\* division by five, and MaxTotal + 5 gives a source one event more than
\* MaxPerFile files of one event hold
Totals == 0..MaxTotal \cup {MaxTotal + 5}

Min(a, b) == IF a <= b THEN a ELSE b
Max(a, b) == IF a >= b THEN a ELSE b

(* ------------------------------ calendar ------------------------------- *)
IsLeap(y) == (y % 4 = 0) /\ ((y % 100 # 0) \/ (y % 400 = 0))

DaysInMonth(y, m) ==
    IF m = 2 THEN (IF IsLeap(y) THEN 29 ELSE 28)
    ELSE IF m \in {4, 6, 9, 11} THEN 30 ELSE 31

DaysBeforeYear(y) ==
    LET y1 == y - 1 IN y1 * 365 + (y1 \div 4) - (y1 \div 100) + (y1 \div 400)

RECURSIVE DaysBeforeMonth(_, _)
DaysBeforeMonth(y, m) ==
    IF m = 1 THEN 0 ELSE DaysBeforeMonth(y, m - 1) + DaysInMonth(y, m - 1)

\* datetime.strptime(day, "%Y-%m-%d"): the day's ordinal (0001-01-01 is 1)
Strptime(day) == DaysBeforeYear(day[1]) + DaysBeforeMonth(day[1], day[2]) + day[3]

\* datetime.strftime("%Y-%m-%d"): the triple of an ordinal
Strftime(ord) ==
    LET n0   == ord - 1
        n400 == n0 \div 146097
        r400 == n0 % 146097
        n100 == r400 \div 36524
        r100 == r400 % 36524
        n4   == r100 \div 1461
        r4   == r100 % 1461
        n1   == r4 \div 365
        r1   == r4 % 365
        year == n400 * 400 + 1 + n100 * 100 + n4 * 4 + n1
    IN  IF n1 = 4 \/ n100 = 4
        THEN <<year - 1, 12, 31>>
        ELSE LET m == CHOOSE k \in 1..12 :
                        /\ DaysBeforeMonth(year, k) <= r1
                        /\ r1 < DaysBeforeMonth(year, k) + DaysInMonth(year, k)
             IN  <<year, m, r1 - DaysBeforeMonth(year, m) + 1>>

\* line 264: (strptime(args.day) - timedelta(days=d)).strftime(...)
DayStr(day, d) == Strftime(Strptime(day) - d)

(* --------------------------- record factories -------------------------- *)
NoRec == [none |-> TRUE]

\* {**a, **b}: keys of b win
Merge(a, b) == b @@ a

\* round(x, 2) of a value num/den cents; on an exact half the double may
\* lie on either side, so both neighbours are possible
RoundCents(num, den) ==
    LET q == num \div den
        r == num % den
    IN  IF 2 * r < den THEN {q}
        ELSE IF 2 * r > den THEN {q + 1}
        ELSE {q, q + 1}

\* representative results of round(random.uniform(lo, hi), 2), in cents:
\* the smallest one and one next to the largest
UniformCents(lo, hi) == {lo * 100, hi * 100 - 1}

\* triangular(5.0, 60.0, 300.0) has low 5, high 60 and mode 300: with
\* c = 295/55 > 1 it returns 5 + 55 * sqrt(u * c), u in [0, 1)
rand_amount(lo, hi, purchase) ==
    IF purchase THEN {500, 13237} ELSE UniformCents(lo, hi)

base_record(source) == [currency |-> "USD", source_system |-> source]

gen_payments_unsigned ==
    LET base == base_record("payments") IN
    UNION {
      IF channel \in {"card_auth", "card_settlement"} THEN
        { Merge(base, [event_type |-> channel, amount |-> amt]) :
            amt \in rand_amount(1, 500, TRUE) }
      ELSE IF channel \in {"ach_credit", "ach_debit"} THEN
        { Merge(base, [event_type |-> channel, amount |-> amt]) :
            amt \in rand_amount(5, 2000, FALSE) }
      ELSE IF channel = "wire_transfer" THEN
        { Merge(base, [event_type |-> "wire_transfer", amount |-> a]) :
            a \in UNION { {amt, -amt} : amt \in rand_amount(100, 10000, FALSE) } }
      ELSE
        { Merge(base, [event_type |-> "zelle_payment", amount |-> a]) :
            a \in UNION { {amt, -amt} : amt \in rand_amount(5, 500, FALSE) } }
      : channel \in PAYMENT_CHANNELS }

gen_payments ==
    LET base == base_record("payments") IN
    UNION {
      IF channel \in {"card_auth", "card_settlement"} THEN
        { Merge(base, [event_type |-> channel, amount |-> amt]) :
            amt \in rand_amount(1, 500, TRUE) }
      ELSE IF channel \in {"ach_credit", "ach_debit"} THEN
        { Merge(base, [event_type |-> channel,
                       amount |-> IF channel = "ach_credit" THEN amt ELSE -amt]) :
            amt \in rand_amount(5, 2000, FALSE) }
      ELSE IF channel = "wire_transfer" THEN
        { Merge(base, [event_type |-> "wire_transfer", amount |-> a]) :
            a \in UNION { {amt, -amt} : amt \in rand_amount(100, 10000, FALSE) } }
      ELSE
        { Merge(base, [event_type |-> "zelle_payment", amount |-> a]) :
            a \in UNION { {amt, -amt} : amt \in rand_amount(5, 500, FALSE) } }
      : channel \in PAYMENT_CHANNELS }

\* paid = amt if status in (paid, refunded)
\*        else round(amt * choice([0, 0.25, 0.5, 0.75]), 2)
BillingPaid(amt, status) ==
    IF status \in {"paid", "refunded"} THEN {amt}
    ELSE UNION { RoundCents(amt * quarters, 4) : quarters \in 0..3 }

gen_billing ==
    LET base == base_record("billing") IN
    UNION {
      { Merge(base, [event_type  |-> event_type,
                     status      |-> status,
                     amount      |-> IF event_type # "refund_issued" THEN amt ELSE -paid,
                     amount_due  |-> Max(0, amt - paid),
                     amount_paid |-> paid]) :
          paid \in BillingPaid(amt, status),
          event_type \in {"invoice_issued", "invoice_paid", "refund_issued"} }
      : status \in {"open", "paid", "overdue", "refunded"},
        amt \in rand_amount(20, 2000, FALSE) }

gen_crm ==
    { Merge(base_record("crm"), [event_type |-> event_type, amount |-> 0]) :
        event_type \in CRM_EVENTS }

gen_erp ==
    { Merge(base_record("erp"),
            [event_type |-> "gl_posting",
             debit      |-> IF side = "debit" THEN amt ELSE 0,
             credit     |-> IF side = "credit" THEN amt ELSE 0,
             amount     |-> amt]) :
        amt \in rand_amount(5, 5000, FALSE), side \in {"debit", "credit"} }

gen_support ==
    { Merge(base_record("support"),
            [event_type |-> IF status \in {"resolved", "closed"}
                            THEN "ticket_closed" ELSE "ticket_opened",
             amount     |-> 0,
             status     |-> status]) :
        status \in {"open", "in_progress", "resolved", "closed"} }

GEN_BY_SOURCE(source) ==
    CASE source = "payments" -> gen_payments
      [] source = "billing"  -> gen_billing
      [] source = "crm"      -> gen_crm
      [] source = "erp"      -> gen_erp
      [] source = "support"  -> gen_support

BackfillOverwrite(rec) ==
    Merge(rec, [amount |-> 0, event_type |-> "event"])

\* lines 242-245: the writer's defaults for the two required keys
Backfill(rec) ==
    LET r1 == IF "amount" \notin DOMAIN rec THEN Merge(rec, [amount |-> 0]) ELSE rec
    IN  IF "event_type" \notin DOMAIN r1 THEN Merge(r1, [event_type |-> "event"]) ELSE r1

(* ------------------------- writer and driver helpers ------------------- *)
\* math.ceil(n / e)
CeilDiv(n, e) == (n + e - 1) \div e

NFilesNoMax(n_events, events_per_file) == CeilDiv(n_events, events_per_file)

\* line 233
NFiles(n_events, events_per_file) == Max(1, CeilDiv(n_events, events_per_file))

CountNoMin(events_per_file, remaining) == events_per_file

\* line 236
Count(events_per_file, remaining) == Min(events_per_file, remaining)

ShareOffByOne(total_events, idx) ==
    LET per_source == total_events \div Len(SOURCES)
        remainder  == total_events - per_source * Len(SOURCES)
    IN  per_source + (IF idx <= remainder THEN 1 ELSE 0)

\* lines 265-268; idx is the 0-based position in SOURCES
Share(total_events, idx) ==
    LET per_source == total_events \div Len(SOURCES)
        remainder  == total_events - per_source * Len(SOURCES)
    IN  per_source + (IF idx < remainder THEN 1 ELSE 0)

DayStrForward(day, d) == Strftime(Strptime(day) + d)

\* line 264 as used by the loop
LoopDay(day, d) == DayStr(day, d)

\* line 231
BasePath(day_str, source) == [day |-> day_str, source |-> source]

\* line 237
PartPath(base, i) == [day |-> base.day, source |-> base.source, part |-> i]

OpenWClearingDir(files, fp) ==
    [x \in {y \in DOMAIN files : y.day # fp.day \/ y.source # fp.source} \cup {fp} |->
        IF x = fp THEN [lines |-> 0, gen |-> "new"] ELSE files[x]]

\* line 238: open(fp, "w") creates the file or truncates it
OpenW(files, fp) ==
    [x \in DOMAIN files \cup {fp} |->
        IF x = fp THEN [lines |-> 0, gen |-> "new"] ELSE files[x]]

\* line 246: one more line in the file
AppendLine(files, fp) ==
    [files EXCEPT ![fp] = [lines |-> @.lines + 1, gen |-> @.gen]]

HandleLeak(handles, fp) == handles

\* end of the with block (line 238): the handle is closed
CloseHandle(handles, fp) == handles \ {fp}

SwallowError(here) == here

\* an exception of a filesystem call is caught nowhere: the process ends
Propagate(here) == "aborted"

(* -------------------------------- state -------------------------------- *)
VARIABLES
    args,       \* parsed command line: day, days, total_events, events_per_file
    pc,         \* position of the script
    err,        \* the exception in flight, "none" when there is none
    d,          \* driver: index of the day loop
    idx,        \* driver: 0-based index into SOURCES
    day_str,    \* write_partition: parameter day_str
    source,     \* write_partition: parameter source
    n_events,   \* write_partition: parameter n_events
    base,       \* write_partition: the partition directory
    n_files,    \* write_partition: number of part files to write
    remaining,  \* write_partition: events still to write
    i,          \* write_partition: index of the file loop
    count,      \* write_partition: lines of the current file
    j,          \* write_partition: lines written to the current file
    dirs,       \* file system: the directories that exist
    fs,         \* file system: path -> content of the files that exist
    handles,    \* the open file handles
    made,       \* the record the factory returned last
    written,    \* the record serialized last
    calls,      \* history: the calls of write_partition, in order
    returned,   \* history: what each returned call wrote
    opened,     \* history: the files opened, in order
    failedAt    \* history: the path the failing operation was applied to

vars == <<args, pc, err, d, idx, day_str, source, n_events, base, n_files,
          remaining, i, count, j, dirs, fs, handles, made, written,
          calls, returned, opened, failedAt>>

wpLocals == <<day_str, source, n_events, base, n_files, remaining, i, count, j>>
history  == <<calls, returned, opened, failedAt>>

Root == [out |-> "out_dir"]
NoPath == [nopath |-> TRUE]

\* files left behind by an earlier run (none, or MaxPre per partition):
\* parts 0..pre-1 in the partitions
\* of the end day and of the day before it
PreExisting(day, pre) ==
    LET paths == { PartPath(BasePath(dd, SOURCES[s]), p) :
                     dd \in {day, DayStr(day, 1)}, s \in 1..Len(SOURCES), p \in 0..(pre - 1) }
    IN  [x \in paths |-> [lines |-> 1, gen |-> "old"]]

Init ==
    /\ args \in [day : EndDays, days : 0..MaxDays,
                 total_events : Totals, events_per_file : 1..MaxPerFile]
    /\ \E pre \in {0, MaxPre} :
         /\ fs = PreExisting(args.day, pre)
         /\ dirs = { BasePath(x.day, x.source) : x \in DOMAIN fs }
                     \cup (IF pre > 0 THEN {Root} ELSE {})
    /\ pc = "start"
    /\ err = "none"
    /\ d = 0
    /\ idx = 0
    /\ day_str = <<0, 0, 0>>
    /\ source = ""
    /\ n_events = 0
    /\ base = NoPath
    /\ n_files = 0
    /\ remaining = 0
    /\ i = 0
    /\ count = 0
    /\ j = 0
    /\ handles = {}
    /\ made = NoRec
    /\ written = NoRec
    /\ calls = <<>>
    /\ returned = <<>>
    /\ opened = <<>>
    /\ failedAt = NoPath

(* ------------------------------- driver -------------------------------- *)
\* lines 260-261: out_dir.mkdir(parents=True, exist_ok=True)
MainMkdir ==
    /\ pc = "start"
    /\ dirs' = dirs \cup {Root}
    /\ pc' = "main"
    /\ UNCHANGED <<args, err, d, idx, wpLocals, fs, handles, made, written, history>>

MainMkdirFail ==
    /\ pc = "start"
    /\ err' = "OSError"
    /\ pc' = Propagate(pc)
    /\ failedAt' = Root
    /\ UNCHANGED <<args, d, idx, wpLocals, dirs, fs, handles, made, written,
                   calls, returned, opened>>

\* lines 263-269: the next (day, source) of the two nested loops calls
\* write_partition
DriverCall ==
    /\ pc = "main"
    /\ d < args.days
    /\ idx < Len(SOURCES)
    /\ day_str' = LoopDay(args.day, d)
    /\ source' = SOURCES[idx + 1]
    /\ n_events' = Share(args.total_events, idx)
    /\ pc' = "wp_mkdir"
    /\ UNCHANGED <<args, err, d, idx, base, n_files, remaining, i, count, j,
                   dirs, fs, handles, made, written, history>>

\* line 263: the day loop is exhausted
DriverDone ==
    /\ pc = "main"
    /\ d >= args.days
    /\ pc' = "done"
    /\ UNCHANGED <<args, err, d, idx, wpLocals, dirs, fs, handles, made, written, history>>

(* --------------------------- write_partition --------------------------- *)
\* lines 231-234
WpMkdir ==
    /\ pc = "wp_mkdir"
    /\ base' = BasePath(day_str, source)
    /\ dirs' = dirs \cup {base'}
    /\ n_files' = NFiles(n_events, args.events_per_file)
    /\ remaining' = n_events
    /\ i' = 0
    /\ calls' = Append(calls, [day |-> day_str, source |-> source,
                               n |-> n_events, dir |-> base'])
    /\ pc' = "wp_loop"
    /\ UNCHANGED <<args, err, d, idx, day_str, source, n_events, count, j,
                   fs, handles, made, written, returned, opened, failedAt>>

WpMkdirFail ==
    /\ pc = "wp_mkdir"
    /\ base' = BasePath(day_str, source)
    /\ calls' = Append(calls, [day |-> day_str, source |-> source,
                               n |-> n_events, dir |-> base'])
    /\ err' = "OSError"
    /\ pc' = Propagate(pc)
    /\ failedAt' = base'
    /\ UNCHANGED <<args, d, idx, day_str, source, n_events, n_files, remaining, i,
                   count, j, dirs, fs, handles, made, written, returned, opened>>

\* lines 235-238: the next file of the loop is opened for writing
WpOpen ==
    /\ pc = "wp_loop"
    /\ i < n_files
    /\ count' = Count(args.events_per_file, remaining)
    /\ LET fp == PartPath(base, i) IN
         /\ fs' = OpenW(fs, fp)
         /\ handles' = handles \cup {fp}
         /\ opened' = Append(opened, fp)
    /\ j' = 0
    /\ pc' = "wp_write"
    /\ UNCHANGED <<args, err, d, idx, day_str, source, n_events, base, n_files,
                   remaining, i, dirs, made, written, calls, returned, failedAt>>

WpOpenFail ==
    /\ pc = "wp_loop"
    /\ i < n_files
    /\ count' = Count(args.events_per_file, remaining)
    /\ err' = "OSError"
    /\ pc' = Propagate(pc)
    /\ failedAt' = PartPath(base, i)
    /\ UNCHANGED <<args, d, idx, day_str, source, n_events, base, n_files, remaining,
                   i, j, dirs, fs, handles, made, written, calls, returned, opened>>

\* lines 239-246: one record is generated, completed and written
WpWriteLine ==
    /\ pc = "wp_write"
    /\ j < count
    /\ \E rec \in GEN_BY_SOURCE(source) :
         /\ made' = rec
         /\ written' = Backfill(rec)
    /\ fs' = AppendLine(fs, PartPath(base, i))
    /\ j' = j + 1
    /\ UNCHANGED <<args, pc, err, d, idx, day_str, source, n_events, base, n_files,
                   remaining, i, count, dirs, handles, history>>

\* line 246 raises: the with block closes the handle, the exception goes on
WpWriteFail ==
    /\ pc = "wp_write"
    /\ j < count
    /\ handles' = CloseHandle(handles, PartPath(base, i))
    /\ err' = "OSError"
    /\ pc' = Propagate(pc)
    /\ failedAt' = PartPath(base, i)
    /\ UNCHANGED <<args, d, idx, wpLocals, dirs, fs, made, written,
                   calls, returned, opened>>

\* lines 239, 247-248: the file has its lines; it is closed
WpClose ==
    /\ pc = "wp_write"
    /\ j >= count
    /\ handles' = CloseHandle(handles, PartPath(base, i))
    /\ remaining' = remaining - count
    /\ i' = i + 1
    /\ pc' = "wp_loop"
    /\ UNCHANGED <<args, err, d, idx, day_str, source, n_events, base, n_files,
                   count, j, dirs, fs, made, written, history>>

\* line 249 and the loop steps of lines 263 and 267
WpReturn ==
    /\ pc = "wp_loop"
    /\ i >= n_files
    /\ returned' = Append(returned,
          [day |-> day_str, source |-> source, n |-> n_events,
           files |-> Cardinality({k \in 1..Len(opened) :
                                    /\ opened[k].day = base.day
                                    /\ opened[k].source = base.source}),
           lines |-> [p \in 0..(i - 1) |->
                        IF PartPath(base, p) \in DOMAIN fs
                        THEN fs[PartPath(base, p)].lines ELSE -1],
           remaining |-> remaining])
    /\ IF idx + 1 < Len(SOURCES)
       THEN /\ idx' = idx + 1
            /\ d' = d
       ELSE /\ idx' = 0
            /\ d' = d + 1
    /\ pc' = "main"
    /\ UNCHANGED <<args, err, wpLocals, dirs, fs, handles, made, written,
                   calls, opened, failedAt>>

Next ==
    \/ MainMkdir
    \/ MainMkdirFail
    \/ DriverCall
    \/ DriverDone
    \/ WpMkdir
    \/ WpMkdirFail
    \/ WpOpen
    \/ WpOpenFail
    \/ WpWriteLine
    \/ WpWriteFail
    \/ WpClose
    \/ WpReturn

Spec == Init /\ [][Next]_vars

(* ---------------- the writer applied to any factory record -------------- *)
\* a record without the keys ks
StripKeys(rec, ks) == [key \in DOMAIN rec \ ks |-> rec[key]]

\* line 240 with a factory table whose records may lack the two keys
\* the writer completes: the records of the factory as they are and
\* with event_type, amount or both removed
AnyFactoryRecord(src) ==
    { StripKeys(rec, ks) : rec \in GEN_BY_SOURCE(src),
                           ks \in SUBSET {"event_type", "amount"} }

\* lines 239-246 for such a record
WpWriteAny ==
    /\ pc = "wp_write"
    /\ j < count
    /\ \E rec \in AnyFactoryRecord(source) :
         /\ made' = rec
         /\ written' = Backfill(rec)
    /\ fs' = AppendLine(fs, PartPath(base, i))
    /\ j' = j + 1
    /\ UNCHANGED <<args, pc, err, d, idx, day_str, source, n_events, base, n_files,
                   remaining, i, count, dirs, handles, history>>

\* one day, into an empty output folder
InitWriter ==
    /\ Init
    /\ args.days <= 1
    /\ args.day = <<2024, 3, 1>>
    /\ DOMAIN fs = {}

NextWriter ==
    \/ MainMkdir
    \/ MainMkdirFail
    \/ DriverCall
    \/ DriverDone
    \/ WpMkdir
    \/ WpMkdirFail
    \/ WpOpen
    \/ WpOpenFail
    \/ WpWriteAny
    \/ WpWriteFail
    \/ WpClose
    \/ WpReturn

SpecWriter == InitWriter /\ [][NextWriter]_vars

TypeOK ==
    /\ pc \in {"start", "main", "wp_mkdir", "wp_loop", "wp_write", "done", "aborted"}
    /\ err \in {"none", "OSError"}
    /\ d \in 0..MaxDays
    /\ idx \in 0..(Len(SOURCES) - 1)
    /\ j \in 0..MaxPerFile
    /\ handles \subseteq DOMAIN fs

(* ------------------------- auxiliary definitions ----------------------- *)
SourceSet == { SOURCES[k] : k \in 1..Len(SOURCES) }

RECURSIVE SumCalls(_, _, _)
SumCalls(log, lo, hi) == IF lo > hi THEN 0 ELSE log[lo].n + SumCalls(log, lo + 1, hi)

RECURSIVE SumLines(_, _)
SumLines(lines, m) == IF m = 0 THEN 0 ELSE lines[m - 1] + SumLines(lines, m - 1)

\* the least k with k * e >= n
CeilOf(n, e) == CHOOSE k \in 0..n : k * e >= n /\ (k = 0 \/ (k - 1) * e < n)

\* the calendar day before a day
PrevDay(t) ==
    IF t[3] > 1 THEN <<t[1], t[2], t[3] - 1>>
    ELSE IF t[2] > 1 THEN <<t[1], t[2] - 1, DaysInMonth(t[1], t[2] - 1)>>
    ELSE <<t[1] - 1, 12, 31>>

RECURSIVE DaysEnding(_, _)
DaysEnding(day, n) == IF n = 0 THEN {} ELSE {day} \cup DaysEnding(PrevDay(day), n - 1)

\* the events the call for the partition of path fp was asked to write
EventsOf(fp) ==
    LET k == CHOOSE c \in 1..Len(calls) :
                 calls[c].day = fp.day /\ calls[c].source = fp.source
    IN  calls[k].n

\* the lines a complete part file holds
FullLines(fp) ==
    Min(args.events_per_file, EventsOf(fp) - fp.part * args.events_per_file)

IsComplete(fp) ==
    /\ fp \in DOMAIN fs
    /\ fp \notin handles
    /\ fs[fp] = [lines |-> FullLines(fp), gen |-> "new"]

(* -------------------------------- claims -------------------------------- *)
\* C1: the counts n passed to write_partition follow the split of
\* total_events T over the five sources: the call for the source at 0-based
\* position p gets floor(T/5)+1 when p < T mod 5 and floor(T/5) otherwise,
\* and the five counts of one day sum to T.
C1_SharesSumToTotal ==
    LET T == args.total_events IN
    /\ \A k \in 1..Len(calls) :
         LET p == (k - 1) % 5 IN
         /\ calls[k].source = SOURCES[p + 1]
         /\ calls[k].n = (T \div 5) + (IF p < T % 5 THEN 1 ELSE 0)
    /\ \A g \in 1..(Len(calls) \div 5) : SumCalls(calls, 5 * g - 4, 5 * g) = T

C1_Witness ==
    /\ pc = "done"
    /\ Len(calls) >= 5
    /\ args.total_events = MaxTotal + 5
    /\ calls[1].n = calls[2].n + 1

\* C2 as stated: every returned call of write_partition wrote
\* ceil(n_events / events_per_file) part files.
C2_FilesIsCeil ==
    \A k \in 1..Len(returned) :
        returned[k].files = CeilOf(returned[k].n, args.events_per_file)

\* C2 as amended: every returned call of write_partition wrote
\* ceil(n_events / events_per_file) part files when n_events >= 1, and one
\* part file (with no line) when n_events = 0.
C2_FilesIsCeilOrOne ==
    \A k \in 1..Len(returned) :
        returned[k].files = IF returned[k].n = 0 THEN 1
                            ELSE CeilOf(returned[k].n, args.events_per_file)

C2_Witness ==
    \E k \in 1..Len(returned) :
        /\ returned[k].n = 0
        /\ returned[k].files = 1
        /\ returned[k].lines[0] = 0

\* C3: when write_partition returns, the lines of its part files sum to
\* n_events, every file before the last holds events_per_file lines, the
\* last holds the rest, and remaining is never negative and ends at 0.
C3_LinesSumToCount ==
    /\ remaining >= 0
    /\ \A k \in 1..Len(returned) :
         LET r == returned[k]
             m == r.files
         IN  /\ DOMAIN r.lines = 0..(m - 1)
             /\ SumLines(r.lines, m) = r.n
             /\ \A p \in 0..(m - 2) : r.lines[p] = args.events_per_file
             /\ r.lines[m - 1] = r.n - (m - 1) * args.events_per_file
             /\ r.remaining = 0

C3_Witness ==
    \E k \in 1..Len(returned) :
        /\ returned[k].files >= 2
        /\ returned[k].lines[returned[k].files - 1] < args.events_per_file
        /\ returned[k].lines[returned[k].files - 1] > 0

\* C4: every record written has the keys event_type and amount; a key the
\* factory's record lacks gets its default ("event", 0.0), and every key
\* the factory's record has keeps its value.  Checked under SpecWriter,
\* where the record handed to the writer is any record of the five
\* factories, as it is or without one or both of the two keys.
C4_RequiredKeys ==
    written # NoRec =>
        /\ {"event_type", "amount"} \subseteq DOMAIN written
        /\ DOMAIN written = DOMAIN made \cup {"event_type", "amount"}
        /\ \A key \in DOMAIN made : written[key] = made[key]
        /\ "amount" \notin DOMAIN made => written.amount = 0
        /\ "event_type" \notin DOMAIN made => written.event_type = "event"

C4_Witness ==
    /\ written # NoRec
    /\ "amount" \notin DOMAIN made
    /\ "event_type" \notin DOMAIN made
    /\ written.source_system = "erp"
    /\ written.event_type = "event"
    /\ written.amount = 0
    /\ written.debit > 0
    /\ pc = "done"

\* C5: every billing record whose event_type is refund_issued has a
\* negative amount.
C5_RefundNegative ==
    (written # NoRec /\ written.source_system = "billing"
        /\ written.event_type = "refund_issued") => written.amount < 0

\* C6: every payments record with event_type ach_debit has amount < 0 and
\* every payments record with event_type ach_credit has amount > 0.
C6_AchSigns ==
    (written # NoRec /\ written.source_system = "payments") =>
        /\ written.event_type = "ach_debit" => written.amount < 0
        /\ written.event_type = "ach_credit" => written.amount > 0

C6_Witness ==
    /\ written # NoRec
    /\ written.source_system = "payments"
    /\ written.event_type = "ach_debit"
    /\ written.amount = -500

\* C7: a complete run with days = N >= 1 and end day D has called
\* write_partition exactly once for each pair of one of the N calendar days
\* ending at D and one of the five sources, and for no other pair; each call
\* worked under the directory day=<day>/source=<source> of its arguments.
C7_OneCallPerPartition ==
    (pc = "done" /\ args.days >= 1) =>
        LET pairs == { <<calls[k].day, calls[k].source>> : k \in 1..Len(calls) } IN
        /\ Len(calls) = 5 * args.days
        /\ Cardinality(pairs) = Len(calls)
        /\ pairs = DaysEnding(args.day, args.days) \X SourceSet
        /\ \A k \in 1..Len(calls) :
             /\ calls[k].dir = [day |-> calls[k].day, source |-> calls[k].source]
             /\ calls[k].dir \in dirs
             /\ [day |-> calls[k].day, source |-> calls[k].source, part |-> 0] \in DOMAIN fs
        /\ \A k \in 1..Len(opened) : <<opened[k].day, opened[k].source>> \in pairs

C7_Witness ==
    /\ pc = "done"
    /\ args.days = 2
    /\ args.day = <<2024, 3, 1>>
    /\ { calls[k].day : k \in 1..Len(calls) } = {<<2024, 3, 1>>, <<2024, 2, 29>>}
    /\ Len(calls) = 10

\* C8: at most one file is open at any time; a file opened before another
\* is closed and has all of its lines; the part files of a partition are
\* opened in the order 0, 1, 2, ...
C8_OneOpenFile ==
    /\ Cardinality(handles) <= 1
    /\ \A k \in 1..Len(opened) :
         /\ opened[k].part = Cardinality({ m \in 1..(k - 1) :
                                /\ opened[m].day = opened[k].day
                                /\ opened[m].source = opened[k].source })
         /\ k < Len(opened) => IsComplete(opened[k])

C8_Witness ==
    /\ Len(opened) >= 2
    /\ opened[1].part = 0
    /\ opened[2].part = 1
    /\ handles = {opened[2]}
    /\ fs[opened[2]].lines = 1

\* C9: once a filesystem operation has failed, no directory or file is
\* created or written any more, and every part file opened before the one
\* the failure hit is closed and complete.
C9_FailureAborts ==
    [][ /\ err # "none" => (fs' = fs /\ dirs' = dirs /\ opened' = opened /\ pc' = pc)
        /\ err' # "none" =>
             \A k \in 1..Len(opened') : opened'[k] # failedAt' => IsComplete(opened'[k])
      ]_vars

C9_Witness ==
    /\ err = "OSError"
    /\ pc = "aborted"
    /\ Len(opened) >= 2
    /\ failedAt = opened[Len(opened)]
    /\ fs[failedAt].lines < FullLines(failedAt)

\* C10: a step of write_partition creates or changes only part files of its
\* own partition with an index below its number of files; no file is ever
\* deleted, and every other file keeps its content.
C10_FrameOfWritePartition ==
    [][ /\ DOMAIN fs \subseteq DOMAIN fs'
        /\ \A fp \in DOMAIN fs' :
             (fp \notin DOMAIN fs \/ fs'[fp] # fs[fp]) =>
                 /\ pc \in {"wp_loop", "wp_write"}
                 /\ fp.day = day_str
                 /\ fp.source = source
                 /\ fp.part < n_files
      ]_vars

C10_Witness ==
    /\ pc = "done"
    /\ \E fp \in DOMAIN fs :
         /\ fp.part >= 1
         /\ fs[fp] = [lines |-> 1, gen |-> "old"]
         /\ fs[[fp EXCEPT !.part = 0]].gen = "new"
         /\ \E k \in 1..Len(returned) :
              /\ returned[k].day = fp.day
              /\ returned[k].source = fp.source
              /\ returned[k].files <= fp.part

====
